---------------------------- MODULE Spec2Model ----------------------------
(***************************************************************************)
(* Model of src/src/extract-selectors.ts: the four selector extractors     *)
(* extractSelectorsFromHtml, extractSelectorsFromJS,                       *)
(* extractSelectorsWithRegex and extractSelectorsFromSvelte.               *)
(*                                                                         *)
(* A JavaScript string is a sequence of one-character strings, so that     *)
(* split, trim, toLowerCase and the regular expression are computed        *)
(* character by character, as the engine computes them.  The parsers       *)
(* (htmlparser2, acorn, svelte/compiler) are external: the model takes     *)
(* what they hand to the callbacks (attribute events, tokens, visited      *)
(* nodes) as its input, one action per callback invocation.                *)
(***************************************************************************)
EXTENDS Integers, Sequences, FiniteSets, TLC

VARIABLES
    pc,           \* "idle", "walk", "html", "js" (inside a call), "done", "threw", "filter"
    fn,           \* the extractor being run
    selectors,    \* extractSelectorsFromSvelte: Map<string, Selector>, entries in insertion order
    identifiers,  \* extractSelectorsFromSvelte: Set<string>, in insertion order
    ids,          \* extractSelectorsFromSvelte: Map<string, {value: string[]}>
    classSet,     \* the Set<string> `selectors` / `classes` of the other three extractors
    idSet,        \* extractSelectorsFromHtml: the Set<string> `ids`
    todo,         \* children the walker visits next (the Literal nodes of a declarator's init)
    result,       \* the returned string[]
    input,        \* history: the callback arguments the call has received so far
    writes,       \* history: every selectors.set(key, {type}) of the call, in order
    fuel,         \* callback invocations the call may still receive
    calls,        \* calls started so far
    token,        \* the string handed to the token-shape test
    accepted      \* what each extractor's test answered for `token`

vars == <<pc, fn, selectors, identifiers, ids, classSet, idSet, todo, result,
          input, writes, fuel, calls, token, accepted>>

-----------------------------------------------------------------------------
(* Bounds *)

MaxNodes == 3
MaxAttrs == 3
MaxCalls == 3
MaxCallEvents == 2
MaxTokenLen == 3

-----------------------------------------------------------------------------
(* JavaScript strings *)

Min(S) == CHOOSE x \in S : \A y \in S : x <= y
Max(S) == CHOOSE x \in S : \A y \in S : x >= y
Range(q) == {q[i] : i \in 1..Len(q)}

\* \w of a JavaScript regular expression: [A-Za-z0-9_]
LowerLetters == {"a","b","c","d","e","f","g","h","i","j","k","l","m",
                 "n","o","p","q","r","s","t","u","v","w","x","y","z"}
UpperLetters == {"A","B","C","D","E","F","G","H","I","J","K","L","M",
                 "N","O","P","Q","R","S","T","U","V","W","X","Y","Z"}
Digits == {"0","1","2","3","4","5","6","7","8","9"}
WordChars == LowerLetters \cup UpperLetters \cup Digits \cup {"_"}

\* \s (the members the model's inputs use)
WhiteSpace == {" ", "\t", "\n"}

\* the character class [\w\-:./![\]]
IsClassChar(c) == c \in WordChars \cup {"-", ":", ".", "/", "!", "[", "]"}

LowerOf ==
    ("A" :> "a") @@ ("B" :> "b") @@ ("C" :> "c") @@ ("D" :> "d") @@ ("E" :> "e") @@
    ("F" :> "f") @@ ("G" :> "g") @@ ("H" :> "h") @@ ("I" :> "i") @@ ("J" :> "j") @@
    ("K" :> "k") @@ ("L" :> "l") @@ ("M" :> "m") @@ ("N" :> "n") @@ ("O" :> "o") @@
    ("P" :> "p") @@ ("Q" :> "q") @@ ("R" :> "r") @@ ("S" :> "s") @@ ("T" :> "t") @@
    ("U" :> "u") @@ ("V" :> "v") @@ ("W" :> "w") @@ ("X" :> "x") @@ ("Y" :> "y") @@
    ("Z" :> "z")

\* String.prototype.toLowerCase
ToLowerCase(s) == [i \in 1..Len(s) |-> IF s[i] \in UpperLetters THEN LowerOf[s[i]] ELSE s[i]]

\* String.prototype.trim
Trim(s) ==
    LET keep == {i \in 1..Len(s) : s[i] \notin WhiteSpace}
    IN  IF keep = {} THEN <<>> ELSE SubSeq(s, Min(keep), Max(keep))

\* String.prototype.split with a one-character separator: empty pieces are kept
RECURSIVE Split(_, _)
Split(s, sep) ==
    LET at == {i \in 1..Len(s) : s[i] = sep}
    IN  IF at = {} THEN <<s>>
        ELSE <<SubSeq(s, 1, Min(at) - 1)>> \o Split(SubSeq(s, Min(at) + 1, Len(s)), sep)

\* String.prototype.split(/\s+/): each maximal run of whitespace separates
RECURSIVE SplitWs(_)
SplitWs(s) ==
    LET at == {i \in 1..Len(s) : s[i] \in WhiteSpace}
    IN  IF at = {} THEN <<s>>
        ELSE LET i == Min(at)
                 rest == {j \in (i + 1)..Len(s) : s[j] \notin WhiteSpace}
                 j == IF rest = {} THEN Len(s) + 1 ELSE Min(rest)
             IN  <<SubSeq(s, 1, i - 1)>> \o SplitWs(SubSeq(s, j, Len(s)))

\* .filter(Boolean) on an array of strings
FilterBoolean(q) == SelectSeq(q, LAMBDA t : t # <<>>)

-----------------------------------------------------------------------------
(* The regular expression /[\w\-:./![\]]+(?<!:)/                           *)
(* Indices are JavaScript's: 0-based, a match is [index, end).             *)

\* the greedy + from position p: the end of the maximal run of class characters
RunEnd(s, p) ==
    CHOOSE q \in p..Len(s) :
        /\ \A i \in (p + 1)..q : IsClassChar(s[i])
        /\ q = Len(s) \/ ~IsClassChar(s[q + 1])

\* an attempt at position p: the + gives characters back until the lookbehind
\* (?<!:) finds a character other than ":" before the end; -1 when none is left
MatchAt(s, p) ==
    LET ends == {e \in (p + 1)..RunEnd(s, p) : s[e] # ":"}
    IN  IF ends = {} THEN -1 ELSE Max(ends)

\* RegExp exec from lastIndex: the leftmost position at which an attempt succeeds
RegexExec(s, lastIndex) ==
    LET starts == {p \in lastIndex..(Len(s) - 1) : MatchAt(s, p) # -1}
    IN  IF starts = {} THEN [index |-> -1, end |-> -1]
        ELSE [index |-> Min(starts), end |-> MatchAt(s, Min(starts))]

\* regex.test(s) of a regular expression without the g flag (lines 32, 35, 66)
RegexTest(s) == RegexExec(s, 0).index # -1

\* regex.test(s) of a regular expression with the g flag (CLASS_REGEX, line 110):
\* the search starts at lastIndex, which a match moves to its end and a failure
\* resets to 0
RegexTestG(s, lastIndex) ==
    LET r == RegexExec(s, lastIndex)
    IN  [ok |-> r.index # -1, lastIndex |-> IF r.index # -1 THEN r.end ELSE 0]

\* code.match(TAILWIND_REGEX) ?? [] with the g flag: every match, left to right
RECURSIVE MatchAllFrom(_, _)
MatchAllFrom(s, from) ==
    LET r == RegexExec(s, from)
    IN  IF r.index = -1 THEN <<>>
        ELSE <<SubSeq(s, r.index + 1, r.end)>> \o MatchAllFrom(s, r.end)

-----------------------------------------------------------------------------
(* Collections *)

\* Set.prototype.add on a Set kept in insertion order
SetAdd(q, v) == IF v \in Range(q) THEN q ELSE Append(q, v)

\* a forEach of Set.prototype.add
RECURSIVE SetAddAll(_, _)
SetAddAll(q, vs) == IF vs = <<>> THEN q ELSE SetAddAll(SetAdd(q, Head(vs)), Tail(vs))

\* Map.prototype.set on a Map kept in insertion order: a key already present keeps
\* its place and takes the new value
MapSet(m, key, type) ==
    IF \E i \in 1..Len(m) : m[i].key = key
    THEN [i \in 1..Len(m) |-> IF m[i].key = key THEN [key |-> key, type |-> type] ELSE m[i]]
    ELSE Append(m, [key |-> key, type |-> type])

\* ids.set(id, {value})
IdsSet(m, id, value) ==
    IF \E i \in 1..Len(m) : m[i].key = id
    THEN [i \in 1..Len(m) |-> IF m[i].key = id THEN [key |-> id, value |-> value] ELSE m[i]]
    ELSE Append(m, [key |-> id, value |-> value])

\* ids.get(id) !== undefined
IdsHas(m, id) == \E i \in 1..Len(m) : m[i].key = id

\* ids.get(id).value
IdsGet(m, id) == m[CHOOSE i \in 1..Len(m) : m[i].key = id].value

-----------------------------------------------------------------------------
(* extractSelectorsFromSvelte: the locals and the enter callback.          *)
(* The handlers thread a record L of the function's locals: selectors,     *)
(* identifiers, ids (and the history of selectors.set calls, writes).      *)

\* the locals as they stand
Locals == [selectors |-> selectors, identifiers |-> identifiers, ids |-> ids, writes |-> writes]

\* (mutant) the collections are module-level and survive the call before
StaleLocals ==
    [selectors |-> selectors, identifiers |-> identifiers, ids |-> ids, writes |-> <<>>]

\* lines 104-106: new Map(), new Set(), new Map()
FreshLocals ==
    [selectors |-> <<>>, identifiers |-> <<>>, ids |-> <<>>, writes |-> <<>>]

\* (mutant) the first type written for a key is kept
SelectorsSetKeepFirst(L, key, type) ==
    [L EXCEPT !.selectors = IF \E i \in 1..Len(@) : @[i].key = key THEN @
                            ELSE MapSet(@, key, type),
              !.writes = Append(@, [key |-> key, type |-> type])]

\* selectors.set(key, {type})
SelectorsSet(L, key, type) ==
    [L EXCEPT !.selectors = MapSet(@, key, type),
              !.writes = Append(@, [key |-> key, type |-> type])]

\* toArray(value), lines 252-257
toArray(v) ==
    IF v.isString
    THEN LET parts == SplitWs(v.str) IN [i \in 1..Len(parts) |-> Trim(parts[i])]
    ELSE <<>>

\* element.right?.value as a condition: the right operand has a value and it is
\* truthy (a non-empty string; the model's other literals are non-zero numbers)
Truthy(el) == el.hasValue /\ (el.isString => el.str # <<>>)

\* lines 120-130: the forEach over parent.init.callee.object.elements
RECURSIVE BindElements(_, _, _)
BindElements(m, id, els) ==
    IF els = <<>> THEN m
    ELSE LET el == Head(els)
             m1 == IF el.type = "Literal" THEN IdsSet(m, id, toArray(el)) ELSE m
             m2 == IF el.type = "LogicalExpression" /\ Truthy(el)
                   THEN IdsSet(m1, id, toArray(el)) ELSE m1
         IN  BindElements(m2, id, Tail(els))

\* lines 112-132: node.type === "Identifier"
HandleIdentifier(L, node) ==
    LET init == node.init
        m1 == IF init.type = "Literal" THEN IdsSet(L.ids, node.name, toArray(init)) ELSE L.ids
        m2 == IF init.type = "CallExpression" /\ init.hasCalleeObject
              THEN BindElements(m1, node.name, init.elements) ELSE m1
    IN  [L EXCEPT !.ids = m2]

\* lines 134-137: node.type === "Element"
HandleElement(L, node) == SelectorsSet(L, node.name, "Element")

\* lines 154-157, 178-183, 224-228: the forEach that tests each token with the one
\* CLASS_REGEX object of this enter call; lastIndex is carried from test to test
RECURSIVE TestTokens(_, _, _)
TestTokens(L, lastIndex, toks) ==
    IF toks = <<>> THEN [L |-> L, lastIndex |-> lastIndex]
    ELSE LET r == RegexTestG(Head(toks), lastIndex)
         IN  TestTokens(IF r.ok THEN SelectorsSet(L, Head(toks), "Class") ELSE L,
                        r.lastIndex, Tail(toks))

\* a forEach of selectors.set(key, {type})
RECURSIVE SetEach(_, _, _)
SetEach(L, keys, type) ==
    IF keys = <<>> THEN L ELSE SetEach(SelectorsSet(L, Head(keys), type), Tail(keys), type)

\* (mutant) an identifier without a binding is registered under its own name
ResolveOrName(L, id) ==
    IF IdsHas(L.ids, id) THEN SetEach(L, IdsGet(L.ids, id), "FromIdentifier")
    ELSE SelectorsSet(L, id, "FromIdentifier")

\* lines 234-239: one identifier of the resolution loop
ResolveIdentifier(L, id) ==
    IF IdsHas(L.ids, id) THEN SetEach(L, IdsGet(L.ids, id), "FromIdentifier") ELSE L

\* (mutant) single pass: the identifier is resolved where it is used, against the
\* bindings seen so far
ResolveAtUse(L, name) == ResolveIdentifier(L, name)

\* identifiers.add(value.expression.name), lines 147 and 171
AddIdentifier(L, name) == [L EXCEPT !.identifiers = SetAdd(@, name)]

\* lines 143-159 and 167-185: the map over the parts of an attribute's value
RECURSIVE ValueParts(_, _, _)
ValueParts(L, lastIndex, parts) ==
    IF parts = <<>> THEN [L |-> L, lastIndex |-> lastIndex]
    ELSE LET part == Head(parts)
         IN  IF part.type = "MustacheTag"
             THEN ValueParts(IF part.expr = "Identifier" THEN AddIdentifier(L, part.name) ELSE L,
                             lastIndex, Tail(parts))
             ELSE IF part.type = "Text"
             THEN LET r == TestTokens(L, lastIndex, FilterBoolean(SplitWs(part.data)))
                  IN  ValueParts(r.L, r.lastIndex, Tail(parts))
             ELSE ValueParts(L, lastIndex, Tail(parts))

\* the name of a class attribute
ClassName == <<"c", "l", "a", "s", "s">>

\* line 143: node.value?.map(...) of a class attribute whose value is `true`
\* (an attribute written without a value) calls undefined: a TypeError
AttributeThrows(node) == node.name = ClassName /\ ~node.isArray

\* lines 139-186: node.type === "Attribute"; the class block, then the block for
\* every attribute, with the same CLASS_REGEX object
HandleAttribute(L, node) ==
    LET r1 == IF node.name = ClassName
              THEN ValueParts(L, 0, node.value)
              ELSE [L |-> L, lastIndex |-> 0]
        L2 == SelectorsSet(r1.L, node.name, "Attribute")
    IN  IF node.isArray THEN ValueParts(L2, r1.lastIndex, node.value).L ELSE L2

\* lines 188-191: node.type === "Class" (a class: directive)
HandleClass(L, node) == SelectorsSet(L, node.name, "Class")

\* lines 193-202: node.type === "PseudoClassSelector" && node.name === "global"
GlobalName == <<"g", "l", "o", "b", "a", "l">>

\* (mutant) the pieces are not trimmed
PseudoClassSelectorNoTrim(L, node) ==
    IF node.name = GlobalName
    THEN SetEach(L, Split(node.str, ","), "PseudoClassSelector")
    ELSE L

HandlePseudoClassSelector(L, node) ==
    IF node.name = GlobalName
    THEN LET pieces == Split(node.str, ",")
         IN  SetEach(L, [i \in 1..Len(pieces) |-> Trim(pieces[i])], "PseudoClassSelector")
    ELSE L

\* lines 204-214: node.type === "Literal" && typeof node.value === "string"
HandleLiteral(L, node) ==
    IF node.isString
    THEN SetEach(L, SelectSeq(FilterBoolean(SplitWs(node.str)), LAMBDA t : ToLowerCase(t) = t),
                 "Class")
    ELSE L

\* lines 216-229: node.type === "TemplateElement" && typeof node.value.raw === "string"
HandleTemplateElement(L, node) == TestTokens(L, 0, FilterBoolean(SplitWs(node.str))).L

\* lines 109-230: one call of enter(node, parent)
enter(L, node) ==
    CASE node.type = "Identifier" -> HandleIdentifier(L, node)
      [] node.type = "Element" -> HandleElement(L, node)
      [] node.type = "Attribute" -> HandleAttribute(L, node)
      [] node.type = "Class" -> HandleClass(L, node)
      [] node.type = "PseudoClassSelector" -> HandlePseudoClassSelector(L, node)
      [] node.type = "Literal" -> HandleLiteral(L, node)
      [] node.type = "TemplateElement" -> HandleTemplateElement(L, node)
      [] OTHER -> L

\* lines 233-240: identifiers.forEach(...)
RECURSIVE ResolveAll(_, _)
ResolveAll(L, names) ==
    IF names = <<>> THEN L ELSE ResolveAll(ResolveIdentifier(L, Head(names)), Tail(names))

\* CLASS_SELECTOR of ./constants: the types whose selectors take a "."
CLASS_SELECTOR == {"Class", "FromIdentifier"}

\* lines 244-248: one entry of the returned array
FormatSelector(e) == IF e.type \in CLASS_SELECTOR THEN <<".">> \o e.key ELSE e.key

\* lines 243-249: Array.from(selectors).map(...)
FormatSelectors(m) == [i \in 1..Len(m) |-> FormatSelector(m[i])]

-----------------------------------------------------------------------------
(* extractSelectorsFromHtml, extractSelectorsFromJS, extractSelectorsWithRegex *)

IdName == <<"i", "d">>
AriaHidden == <<"a", "r", "i", "a", "-", "h", "i", "d", "d", "e", "n">>

\* ATTRIBUTES of ./constants: the reserved attribute names
ATTRIBUTES == {AriaHidden}

\* lines 28-33 and 63-67: the forEach that adds each token passing the test
AddTested(q, toks) == SetAddAll(q, SelectSeq(toks, RegexTest))

\* lines 11-36: onattribute(name, value, quote); H holds the two Sets
onattribute(H, name, value) ==
    IF name = ClassName
    THEN [H EXCEPT !.selectors = SetAddAll(@, Split(value, " "))]
    ELSE IF name = IdName
    THEN [H EXCEPT !.ids = SetAdd(@, value)]
    ELSE IF name \in ATTRIBUTES
    THEN H
    ELSE LET withValue == AddTested(H.selectors, Split(value, " "))
         IN  [H EXCEPT !.selectors = IF RegexTest(name) THEN SetAdd(withValue, name)
                                                          ELSE withValue]

\* lines 44-49, 72-77, 91-96: a selector that starts with "." is left as it is
PrependDot(sel) == IF Len(sel) > 0 /\ sel[1] = "." THEN sel ELSE <<".">> \o sel

FormatClasses(q) == [i \in 1..Len(q) |-> PrependDot(q[i])]

\* line 42
FormatIds(q) == [i \in 1..Len(q) |-> <<"#">> \o q[i]]

\* lines 42-51: the returned array of extractSelectorsFromHtml
HtmlResult(H) == FormatIds(H.ids) \o FormatClasses(H.selectors)

\* lines 60-69: onToken(token)
onToken(q, tok) == IF tok.label = "string" THEN AddTested(q, Split(tok.value, " ")) ELSE q

\* lines 82-97: the whole of extractSelectorsWithRegex
WithRegexResult(code) == FormatClasses(SetAddAll(<<>>, MatchAllFrom(code, 0)))

-----------------------------------------------------------------------------
(* Inputs: what the parsers hand over, drawn from small sets *)

Str(s) == [isString |-> TRUE, str |-> s]
\* a literal that is not a string: a non-zero number
NonString == [isString |-> FALSE, str |-> <<>>]

NoInit == [type |-> "None", isString |-> FALSE, str |-> <<>>,
           hasCalleeObject |-> FALSE, elements |-> <<>>]
LiteralInit(v) == [type |-> "Literal", isString |-> v.isString, str |-> v.str,
                   hasCalleeObject |-> FALSE, elements |-> <<>>]
\* a call f([...]) (no callee.object) or [...].m(...) (callee.object is the array)
CallInit(onArray, els) == [type |-> "CallExpression", isString |-> FALSE, str |-> <<>>,
                           hasCalleeObject |-> onArray, elements |-> els]

LiteralElement(v) == [type |-> "Literal", hasValue |-> TRUE, isString |-> v.isString, str |-> v.str]
\* cond && <literal>
LogicalElement(v) == [type |-> "LogicalExpression", hasValue |-> TRUE,
                      isString |-> v.isString, str |-> v.str]

Node(type, name, str, isString, isArray, value, init) ==
    [type |-> type, name |-> name, str |-> str, isString |-> isString,
     isArray |-> isArray, value |-> value, init |-> init]

IdentifierNode(name, init) == Node("Identifier", name, <<>>, FALSE, FALSE, <<>>, init)
ElementNode(name) == Node("Element", name, <<>>, FALSE, FALSE, <<>>, NoInit)
\* value: the array of parts; isArray is FALSE for an attribute without a value (true)
AttributeNode(name, isArray, value) == Node("Attribute", name, <<>>, FALSE, isArray, value, NoInit)
ClassNode(name) == Node("Class", name, <<>>, FALSE, FALSE, <<>>, NoInit)
\* str: children[0].value
PseudoClassSelectorNode(name, str) == Node("PseudoClassSelector", name, str, TRUE, FALSE, <<>>, NoInit)
LiteralNode(v) == Node("Literal", <<>>, v.str, v.isString, FALSE, <<>>, NoInit)
\* str: value.raw
TemplateElementNode(raw) == Node("TemplateElement", <<>>, raw, TRUE, FALSE, <<>>, NoInit)

MustacheIdentifier(name) == [type |-> "MustacheTag", expr |-> "Identifier", name |-> name, data |-> <<>>]
TextPart(data) == [type |-> "Text", expr |-> "", name |-> <<>>, data |-> data]

IdentNames == {<<"x">>, <<"y">>}

Inits ==
    { LiteralInit(Str(<<"A">>)),
      LiteralInit(Str(<<"b">>)),
      CallInit(TRUE, <<LiteralElement(Str(<<"A", " ", "c">>)), LogicalElement(Str(<<"b">>))>>),
      CallInit(FALSE, <<LiteralElement(Str(<<"a">>)), LogicalElement(Str(<<"b">>))>>) }

IdentifierNodes ==
    {IdentifierNode(n, i) : n \in IdentNames, i \in Inits}
    \cup {IdentifierNode(<<"x">>, LiteralInit(NonString))}

ElementNodes == {ElementNode(<<"a">>)}

AttrNames == {ClassName, <<"a">>}
AttrValues ==
    { <<MustacheIdentifier(<<"x">>)>>,
      <<MustacheIdentifier(<<"y">>), TextPart(<<"b", ":">>)>>,
      <<TextPart(<<"a", " ", "b">>)>> }

AttributeNodes ==
    {AttributeNode(n, TRUE, v) : n \in AttrNames, v \in AttrValues}
    \cup {AttributeNode(n, FALSE, <<>>) : n \in AttrNames}

ClassNodes == {ClassNode(<<"a">>)}

PseudoClassSelectorNodes ==
    { PseudoClassSelectorNode(GlobalName, <<".", "a", ",", " ", "$", "b">>),
      PseudoClassSelectorNode(<<"n", "o", "t">>, <<".", "a">>) }

LiteralNodes == {LiteralNode(Str(<<".", "a">>)), LiteralNode(Str(<<"a", " ", "B">>))}

TemplateElementNodes == {TemplateElementNode(<<"a", " ", "b">>)}

\* the Literal nodes below a declarator's init, which the walker enters right after
\* the declared Identifier: the init itself, or the literals of the call's array.
\* The other nodes below the init (the callee, the left operand of &&, a separator
\* argument such as " ") match no branch of enter or yield no token.
RECURSIVE ElementLiterals(_)
ElementLiterals(els) ==
    IF els = <<>> THEN <<>>
    ELSE (IF Head(els).hasValue THEN <<LiteralNode(Head(els))>> ELSE <<>>)
         \o ElementLiterals(Tail(els))

Children(node) ==
    IF node.type # "Identifier" THEN <<>>
    ELSE IF node.init.type = "Literal" THEN <<LiteralNode(node.init)>>
    ELSE IF node.init.type = "CallExpression" THEN ElementLiterals(node.init.elements)
    ELSE <<>>

HtmlNames == {ClassName, IdName, AriaHidden, <<"a">>}
HtmlValues == {<<"a", " ", "b">>, <<"a", " ", ".", "a">>, <<"b", ":">>, <<"a", " ", " ", "$">>}

JsTokens == {[label |-> "string", value |-> v] : v \in HtmlValues}
            \cup {[label |-> "num", value |-> <<>>]}

RegexCodes == {<<"a", " ", ".", "a">>, <<"b", ":", "$", ":">>, <<"$">>}

FilterChars == {"a", ":", "$"}

Hover == <<"h", "o", "v", "e", "r", ":">>
HoverBgRed500 == Hover \o <<"b", "g", "-", "r", "e", "d", "-", "5", "0", "0">>
WHalf == <<"w", "-", "1", "/", "2">>

FilterTokens ==
    UNION {[1..n -> FilterChars] : n \in 1..MaxTokenLen} \cup {Hover, HoverBgRed500, WHalf}

-----------------------------------------------------------------------------
(* Actions *)

SetLocals(L) ==
    /\ selectors' = L.selectors
    /\ identifiers' = L.identifiers
    /\ ids' = L.ids
    /\ writes' = L.writes

\* the start of a call: every local is created by the call (lines 8-9, 55, 83, 104-106)
Begin(f, at, n) ==
    /\ pc' = at
    /\ fn' = f
    /\ SetLocals(FreshLocals)
    /\ classSet' = <<>>
    /\ idSet' = <<>>
    /\ todo' = <<>>
    /\ result' = <<>>
    /\ input' = <<>>
    /\ fuel' = n
    /\ UNCHANGED <<token, accepted>>

Idle == pc \in {"idle", "done", "threw"} /\ calls < MaxCalls

\* extractSelectorsFromSvelte(template): parse succeeds and the walk starts
CallSvelte == Idle /\ calls' = calls + 1 /\ Begin("svelte", "walk", MaxCallEvents)

\* line 103: parse(template) throws on a template that is not valid
CallSvelteThrows == Idle /\ calls' = calls + 1 /\ Begin("svelte", "threw", 0)

CallHtml == Idle /\ calls' = calls + 1 /\ Begin("html", "html", MaxCallEvents)

CallJs == Idle /\ calls' = calls + 1 /\ Begin("js", "js", MaxCallEvents)

\* one call enter(node, parent) of the walk; kids are the children entered next
Visit(node, kids, n) ==
    /\ SetLocals(enter(Locals, node))
    /\ input' = Append(input, node)
    /\ todo' = kids
    /\ fuel' = n
    /\ UNCHANGED <<pc, fn, classSet, idSet, result, calls, token, accepted>>

Free == pc = "walk" /\ todo = <<>> /\ fuel > 0

EnterIdentifier == Free /\ \E node \in IdentifierNodes : Visit(node, Children(node), fuel - 1)

EnterElement == Free /\ \E node \in ElementNodes : Visit(node, <<>>, fuel - 1)

EnterAttribute ==
    /\ Free
    /\ \E node \in AttributeNodes :
         IF AttributeThrows(node)
         THEN /\ pc' = "threw"
              /\ input' = Append(input, node)
              /\ fuel' = fuel - 1
              /\ UNCHANGED <<fn, selectors, identifiers, ids, classSet, idSet, todo,
                             result, writes, calls, token, accepted>>
         ELSE Visit(node, <<>>, fuel - 1)

EnterClass == Free /\ \E node \in ClassNodes : Visit(node, <<>>, fuel - 1)

EnterPseudoClassSelector ==
    Free /\ \E node \in PseudoClassSelectorNodes : Visit(node, <<>>, fuel - 1)

\* a Literal node: the next child of the declarator just entered, or one elsewhere
EnterLiteral ==
    /\ pc = "walk"
    /\ IF todo # <<>>
       THEN Visit(Head(todo), Tail(todo), fuel)
       ELSE fuel > 0 /\ \E node \in LiteralNodes : Visit(node, <<>>, fuel - 1)

EnterTemplateElement == Free /\ \E node \in TemplateElementNodes : Visit(node, <<>>, fuel - 1)

\* lines 233-249: the walk is over; the resolution loop, then the returned array
SvelteReturn ==
    /\ pc = "walk" /\ todo = <<>>
    /\ LET L == ResolveAll(Locals, identifiers)
       IN  SetLocals(L) /\ result' = FormatSelectors(L.selectors)
    /\ pc' = "done"
    /\ UNCHANGED <<fn, classSet, idSet, todo, input, fuel, calls, token, accepted>>

\* one attribute event of the parser
OnAttribute ==
    /\ pc = "html" /\ fuel > 0
    /\ \E name \in HtmlNames, value \in HtmlValues :
         LET H == onattribute([selectors |-> classSet, ids |-> idSet], name, value)
         IN  /\ classSet' = H.selectors
             /\ idSet' = H.ids
             /\ input' = Append(input, [name |-> name, value |-> value])
    /\ fuel' = fuel - 1
    /\ UNCHANGED <<pc, fn, selectors, identifiers, ids, todo, result, writes, calls,
                   token, accepted>>

\* lines 38-51: parser.end() and the returned array
HtmlReturn ==
    /\ pc = "html"
    /\ result' = HtmlResult([selectors |-> classSet, ids |-> idSet])
    /\ pc' = "done"
    /\ UNCHANGED <<fn, selectors, identifiers, ids, classSet, idSet, todo, input, writes,
                   fuel, calls, token, accepted>>

\* one token of acorn
OnToken ==
    /\ pc = "js" /\ fuel > 0
    /\ \E tok \in JsTokens :
         /\ classSet' = onToken(classSet, tok)
         /\ input' = Append(input, tok)
    /\ fuel' = fuel - 1
    /\ UNCHANGED <<pc, fn, selectors, identifiers, ids, idSet, todo, result, writes, calls,
                   token, accepted>>

\* lines 72-79
JsReturn ==
    /\ pc = "js"
    /\ result' = FormatClasses(classSet)
    /\ pc' = "done"
    /\ UNCHANGED <<fn, selectors, identifiers, ids, classSet, idSet, todo, input, writes,
                   fuel, calls, token, accepted>>

\* line 57: parse_js throws on source that is not valid, at the token it stops at
JsThrows ==
    /\ pc = "js"
    /\ pc' = "threw"
    /\ UNCHANGED <<fn, selectors, identifiers, ids, classSet, idSet, todo, result, input,
                   writes, fuel, calls, token, accepted>>

\* lines 82-97: extractSelectorsWithRegex(code), start to return
CallWithRegex ==
    /\ Idle
    /\ calls' = calls + 1
    /\ \E code \in RegexCodes :
         /\ classSet' = SetAddAll(<<>>, MatchAllFrom(code, 0))
         /\ result' = WithRegexResult(code)
         /\ input' = <<code>>
    /\ pc' = "done"
    /\ fn' = "regex"
    /\ SetLocals(FreshLocals)
    /\ idSet' = <<>> /\ todo' = <<>> /\ fuel' = 0
    /\ UNCHANGED <<token, accepted>>

\* the token-shape test of each extractor, applied to one token
Tested(site) == \E i \in 1..Len(accepted) : accepted[i].site = site

ApplyTest(site, ok) ==
    /\ pc = "filter" /\ ~Tested(site)
    /\ accepted' = Append(accepted, [site |-> site, ok |-> ok])
    /\ UNCHANGED <<pc, fn, selectors, identifiers, ids, classSet, idSet, todo, result,
                   input, writes, fuel, calls, token>>

\* line 32 (a value token) and line 35 (the attribute name)
TestHtml == ApplyTest("html", RegexTest(token))

\* line 66
TestJs == ApplyTest("js", RegexTest(token))

\* lines 155, 179, 225: CLASS_REGEX.test on a regular expression just created
TestSvelte == ApplyTest("svelte", RegexTestG(token, 0).ok)

-----------------------------------------------------------------------------
(* Specifications *)

Blank ==
    /\ selectors = <<>> /\ identifiers = <<>> /\ ids = <<>> /\ writes = <<>>
    /\ classSet = <<>> /\ idSet = <<>> /\ todo = <<>> /\ result = <<>> /\ input = <<>>
    /\ accepted = <<>>

\* one call of extractSelectorsFromSvelte, from the start of the walk
Init == Blank /\ pc = "walk" /\ fn = "svelte" /\ fuel = MaxNodes /\ calls = MaxCalls /\ token = <<>>

Next ==
    \/ EnterIdentifier
    \/ EnterElement
    \/ EnterAttribute
    \/ EnterClass
    \/ EnterPseudoClassSelector
    \/ EnterLiteral
    \/ EnterTemplateElement
    \/ SvelteReturn

Spec == Init /\ [][Next]_vars

\* one call of extractSelectorsFromHtml
InitHtml == Blank /\ pc = "html" /\ fn = "html" /\ fuel = MaxAttrs /\ calls = MaxCalls /\ token = <<>>

NextHtml == OnAttribute \/ HtmlReturn

SpecHtml == InitHtml /\ [][NextHtml]_vars

\* a sequence of calls of the four extractors
InitCalls == Blank /\ pc = "idle" /\ fn = "none" /\ fuel = 0 /\ calls = 0 /\ token = <<>>

NextCalls ==
    \/ CallSvelte
    \/ CallSvelteThrows
    \/ CallHtml
    \/ CallJs
    \/ CallWithRegex
    \/ Next
    \/ NextHtml
    \/ OnToken
    \/ JsReturn
    \/ JsThrows

SpecCalls == InitCalls /\ [][NextCalls]_vars

\* the token-shape test as a function of the token
InitFilter == Blank /\ pc = "filter" /\ fn = "none" /\ fuel = 0 /\ calls = 0 /\ token \in FilterTokens

NextFilter == TestHtml \/ TestJs \/ TestSvelte

SpecFilter == InitFilter /\ [][NextFilter]_vars

-----------------------------------------------------------------------------
(* Properties *)

Returned(f) == pc = "done" /\ fn = f

Dot(t) == <<".">> \o t

\* the whitespace-separated tokens of a string: its maximal runs without whitespace
Words(s) ==
    {SubSeq(s, i, j) : <<i, j>> \in
        {w \in (1..Len(s)) \X (1..Len(s)) :
            /\ w[1] <= w[2]
            /\ \A k \in w[1]..w[2] : s[k] \notin WhiteSpace
            /\ w[1] = 1 \/ s[w[1] - 1] \in WhiteSpace
            /\ w[2] = Len(s) \/ s[w[2] + 1] \in WhiteSpace}}

\* the pieces of a string between single spaces, empty ones included
SpacePieces(s) ==
    {SubSeq(s, i + 1, j - 1) : <<i, j>> \in
        {w \in (0..Len(s)) \X (1..(Len(s) + 1)) :
            /\ w[1] < w[2]
            /\ \A k \in (w[1] + 1)..(w[2] - 1) : s[k] # " "
            /\ w[1] = 0 \/ s[w[1]] = " "
            /\ w[2] = Len(s) + 1 \/ s[w[2]] = " "}}

\* the token-shape filter as the specification words it: the whole token matches
\* [\w\-:./![\]]+ and its last character is not ":"
ShapeOK(t) ==
    /\ t # <<>>
    /\ \A i \in 1..Len(t) : IsClassChar(t[i])
    /\ t[Len(t)] # ":"

IsDeclaration(node) == node.type = "Identifier" /\ node.init.type # "None"
IsLiteralDeclaration(node) ==
    node.type = "Identifier" /\ node.init.type = "Literal" /\ node.init.isString
IsCallDeclaration(node) == node.type = "Identifier" /\ node.init.type = "CallExpression"

\* the identifiers named by a mustache part of the attribute node
UsesOf(node) ==
    IF node.type = "Attribute" /\ node.isArray
    THEN {node.value[k].name : k \in {k \in 1..Len(node.value) :
             node.value[k].type = "MustacheTag" /\ node.value[k].expr = "Identifier"}}
    ELSE {}

IsClassUse(node, name) == node.type = "Attribute" /\ node.name = ClassName /\ name \in UsesOf(node)

UsedInClass(name) == \E u \in 1..Len(input) : IsClassUse(input[u], name)

\* C1 as stated: an identifier declared with a string literal and used as class={id}
\* gives "." + t for every token t of the literal, wherever the declaration is
C1_EveryLiteralDeclarationResolved ==
    Returned("svelte") =>
        \A d \in 1..Len(input) :
            (IsLiteralDeclaration(input[d]) /\ UsedInClass(input[d].name))
                => \A t \in Words(input[d].init.str) : Dot(t) \in Range(result)

\* C1 (amended): an identifier declared with a string literal and used as class={id}
\* gives "." + t for every token t of the literal when that declaration is the last
\* declaration of the name the walk visits, whether it is visited before or after the use
C1_LastLiteralDeclarationResolved ==
    Returned("svelte") =>
        \A d \in 1..Len(input) :
            ( /\ IsLiteralDeclaration(input[d])
              /\ UsedInClass(input[d].name)
              /\ \A e \in (d + 1)..Len(input) :
                    ~(IsDeclaration(input[e]) /\ input[e].name = input[d].name) )
                => \A t \in Words(input[d].init.str) : Dot(t) \in Range(result)

\* C1 witness: the use is visited before the declaration, whose literal "A" only the
\* resolution step can register
C1_UseBeforeDeclaration ==
    /\ Returned("svelte")
    /\ \E u \in 1..Len(input) : \E d \in (u + 1)..Len(input) :
          /\ IsLiteralDeclaration(input[d])
          /\ input[d].init.str = <<"A">>
          /\ IsClassUse(input[u], input[d].name)
          /\ \A e \in 1..Len(input) : IsDeclaration(input[e]) => e = d
    /\ <<".", "A">> \in Range(result)

\* C2 as stated: every token of a static Text part of an attribute value that passes
\* the shape filter is in the returned list as "." + token
C2_EveryTextTokenRegistered ==
    Returned("svelte") =>
        \A a \in 1..Len(input) :
            (input[a].type = "Attribute" /\ input[a].isArray) =>
                \A k \in 1..Len(input[a].value) :
                    input[a].value[k].type = "Text" =>
                        \A t \in Words(input[a].value[k].data) :
                            ShapeOK(t) => Dot(t) \in Range(result)

\* C3 as stated: each extractor's test accepts a token exactly when the whole token
\* matches [\w\-:./![\]]+ and does not end in ":"
C3_TestIsShapeFilter ==
    \A i \in 1..Len(accepted) : accepted[i].ok = ShapeOK(token)

\* C4 as stated: an identifier declared with a call around an array and used as
\* class={id} gives "." + t for every token t of every literal element of the array
C4_EveryArrayElementResolved ==
    Returned("svelte") =>
        \A d \in 1..Len(input) :
            (IsCallDeclaration(input[d]) /\ UsedInClass(input[d].name)) =>
                \A k \in 1..Len(input[d].init.elements) :
                    LET el == input[d].init.elements[k]
                    IN  (el.hasValue /\ el.isString) =>
                            \A t \in Words(el.str) : Dot(t) \in Range(result)

IsGlobal(node) == node.type = "PseudoClassSelector" /\ node.name = GlobalName

\* the comma-separated, trimmed arguments of :global(...)
GlobalArgs(node) == {Trim(piece) : piece \in Range(Split(node.str, ","))}

\* the type of the last selectors.set for the key
LastType(key) == writes[Max({i \in 1..Len(writes) : writes[i].key = key})].type

DotTypes == {"Class", "FromIdentifier"}

\* C5 as stated: every argument of :global(...) is in the list verbatim, whatever
\* else the walk visits
C5_GlobalVerbatimAlways ==
    Returned("svelte") =>
        \A g \in 1..Len(input) : IsGlobal(input[g]) =>
            \A sel \in GlobalArgs(input[g]) :
                \E j \in 1..Len(selectors) : selectors[j].key = sel /\ result[j] = sel

\* C5 (amended): every argument of :global(...), trimmed and unfiltered, has one
\* entry in the list: the argument verbatim, unless the same text was last
\* registered as a class token or by the resolution step, and then "." + argument
C5_GlobalVerbatimUnlessReclassified ==
    Returned("svelte") =>
        /\ Len(result) = Len(selectors)
        /\ \A g \in 1..Len(input) : IsGlobal(input[g]) =>
              \A sel \in GlobalArgs(input[g]) :
                  /\ Cardinality({j \in 1..Len(selectors) : selectors[j].key = sel}) = 1
                  /\ \A j \in 1..Len(selectors) : selectors[j].key = sel =>
                        result[j] = IF LastType(sel) \in DotTypes THEN Dot(sel) ELSE sel

\* C5 witness: :global(.a, $b) is followed by another node and "$b", which the shape
\* filter would reject, is returned verbatim
C5_GlobalThenMore ==
    /\ Returned("svelte")
    /\ \E g \in 1..Len(input) : IsGlobal(input[g]) /\ g < Len(input)
    /\ <<"$", "b">> \in Range(result)

\* what C6 says extractSelectorsFromHtml returns, with the shape filter as specified
C6_Expected ==
    UNION {
        LET ev == input[i]
        IN  IF ev.name = ClassName THEN {PrependDot(t) : t \in SpacePieces(ev.value)}
            ELSE IF ev.name = IdName THEN {<<"#">> \o ev.value}
            ELSE IF ev.name \in ATTRIBUTES THEN {}
            ELSE {PrependDot(t) : t \in {u \in SpacePieces(ev.value) \cup {ev.name} : ShapeOK(u)}}
        : i \in 1..Len(input)}

\* C6 as stated: the returned strings are exactly "#" + id values, the "."-prefixed
\* tokens of class values, and the name and value tokens of the other unreserved
\* attributes that pass the shape filter
C6_HtmlReturnsExactly == Returned("html") => Range(result) = C6_Expected

\* C7 as stated: no string occurs twice in a returned array
C7_NoDuplicates ==
    pc = "done" => \A i, j \in 1..Len(result) : i # j => result[i] # result[j]

\* the walk with every use of the name as a mustache expression removed
WithoutUse(node, name) ==
    IF node.type = "Attribute" /\ node.isArray
    THEN [node EXCEPT !.value = SelectSeq(@, LAMBDA part :
             ~(part.type = "MustacheTag" /\ part.expr = "Identifier" /\ part.name = name))]
    ELSE node

RECURSIVE WalkFrom(_, _)
WalkFrom(L, nodes) == IF nodes = <<>> THEN L ELSE WalkFrom(enter(L, Head(nodes)), Tail(nodes))

NoLocals == [selectors |-> <<>>, identifiers |-> <<>>, ids |-> <<>>, writes |-> <<>>]

SvelteResult(nodes) ==
    LET L == WalkFrom(NoLocals, nodes)
    IN  FormatSelectors(ResolveAll(L, L.identifiers).selectors)

Used(name) == \E u \in 1..Len(input) : name \in UsesOf(input[u])

\* C8: an identifier used as a mustache expression that has no binding when the walk
\* ends changes nothing: the call returns what it returns for the walk without that
\* use, and the only error of a walk is the class attribute without a value
C8_UnresolvedUseIsDropped ==
    /\ Returned("svelte") =>
          \A name \in IdentNames : (Used(name) /\ ~IdsHas(ids, name)) =>
              result = SvelteResult([i \in 1..Len(input) |-> WithoutUse(input[i], name)])
    /\ (pc = "threw" /\ fn = "svelte" /\ input # <<>>) => AttributeThrows(input[Len(input)])

\* C8 witness: a call that returned selectors after a use of an unbound identifier
C8_UnboundUseReturned ==
    /\ Returned("svelte")
    /\ \E name \in IdentNames : Used(name) /\ ~IdsHas(ids, name)
    /\ Len(result) >= 2

RECURSIVE AttributesFrom(_, _)
AttributesFrom(H, evs) ==
    IF evs = <<>> THEN H
    ELSE AttributesFrom(onattribute(H, Head(evs).name, Head(evs).value), Tail(evs))

RECURSIVE TokensFrom(_, _)
TokensFrom(q, toks) == IF toks = <<>> THEN q ELSE TokensFrom(onToken(q, Head(toks)), Tail(toks))

\* the array an extractor returns for an input, computed with nothing before it
Extract(f, in) ==
    CASE f = "svelte" -> SvelteResult(in)
      [] f = "html" -> HtmlResult(AttributesFrom([selectors |-> <<>>, ids |-> <<>>], in))
      [] f = "js" -> FormatClasses(TokensFrom(<<>>, in))
      [] f = "regex" -> WithRegexResult(in[1])

\* C9: whatever calls came before, a call returns the array its input alone
\* determines, so the same input gives the same selectors in the same order
C9_ResultDependsOnInputOnly == pc = "done" => result = Extract(fn, input)

\* C9 witness: extractSelectorsFromSvelte returned selectors after two other calls
C9_LaterCallReturned ==
    /\ Returned("svelte")
    /\ calls = MaxCalls
    /\ input # <<>>
    /\ result # <<>>

\* C10: the returned list has one string per distinct raw token registered, decided
\* by the type written last for it: "." + token for Class and FromIdentifier, the
\* bare token for Element, Attribute and PseudoClassSelector
C10_OneEntryPerTokenLastTypeWins ==
    Returned("svelte") =>
        LET keys == {writes[i].key : i \in 1..Len(writes)}
            Emitted(k) == IF LastType(k) \in DotTypes THEN Dot(k) ELSE k
        IN  /\ Len(result) = Cardinality(keys)
            /\ Len(selectors) = Len(result)
            /\ \A j \in 1..Len(result) :
                  selectors[j].key \in keys /\ result[j] = Emitted(selectors[j].key)
            /\ \A k \in keys : \E j \in 1..Len(result) : selectors[j].key = k

\* C10 witness: an element name is later registered as a class token
C10_ElementThenClass ==
    /\ Returned("svelte")
    /\ \E i \in 1..Len(writes) : \E j \in (i + 1)..Len(writes) :
          /\ writes[i].key = writes[j].key
          /\ writes[i].type = "Element"
          /\ writes[j].type = "Class"
          /\ LastType(writes[i].key) = "Class"
    /\ <<".", "a">> \in Range(result)

=============================================================================
